---- MODULE Spec2Model ----
(***************************************************************************)
(* A model of the traskribe relay (src/main.py): the Telegram webhook      *)
(* handler telegram_webhook, the order submitter create_transcription, the *)
(* background delivery task poll_and_send and the notifier helpers         *)
(* send_message / send_document.                                           *)
(*                                                                         *)
(* Strings the handler parses are sequences of one-character strings.      *)
(* Outbound texts are kept by their composition (a fixed prefix, an        *)
(* argument, a fixed suffix) and their lengths, which is what the chunking *)
(* of send_message depends on.  Every answer of the transcription service  *)
(* and of Telegram is an input chosen by the environment.                  *)
(***************************************************************************)
EXTENDS Integers, Sequences, FiniteSets, TLC

(* ------------------------------ bounds -------------------------------- *)
\* webhook invocations in one run
MaxUpdates == 2
\* export calls one delivery task may issue in a run of the whole relay
MaxPolls == 2
\* export calls the delivery task may issue in a run of the single task
MaxTaskPolls == 3
\* characters that follow the head of an inbound text
MaxTail == 3

(* ------------------------- program constants -------------------------- *)
max_len == 4096
UsageLen == 32
ReminderLen == 56
AckPrefixLen == 35
AckSuffixLen == 33
CreateFailedPrefixLen == 34
ReadyPrefixLen == 24
NoContentLen == 52
RetrieveFailedPrefixLen == 39
RetrieveFailedSuffixLen == 2
StatusDigits == 3

Min(a, b) == IF a <= b THEN a ELSE b

(* ------------------------- str methods used --------------------------- *)
Token == <<"/", "t", "r", "a", "n", "s", "c", "r", "i", "b", "e">>

IsSpace(c) == c \in {" ", "\t"}

RECURSIVE lstrip(_)
lstrip(s) ==
    IF s = <<>> THEN <<>>
    ELSE IF IsSpace(Head(s)) THEN lstrip(Tail(s)) ELSE s

RECURSIVE rstrip(_)
rstrip(s) ==
    IF s = <<>> THEN <<>>
    ELSE IF IsSpace(s[Len(s)]) THEN rstrip(SubSeq(s, 1, Len(s) - 1)) ELSE s

\* str.strip()
strip(s) == rstrip(lstrip(s))

\* str.startswith(p)
startswith_nocase(s, p) ==
    LET lower(c) == IF c = "T" THEN "t" ELSE c
    IN  Len(s) >= Len(p) /\ \A i \in 1..Len(p) : lower(s[i]) = lower(p[i])
startswith(s, p) == Len(s) >= Len(p) /\ SubSeq(s, 1, Len(p)) = p

\* length of the first run of non-whitespace characters of s
RECURSIVE WordLen(_)
WordLen(s) ==
    IF s = <<>> \/ IsSpace(Head(s)) THEN 0 ELSE 1 + WordLen(Tail(s))

\* str.split(maxsplit=1): split on runs of whitespace, at most once
split_maxsplit1(s) ==
    LET t == lstrip(s)
        k == WordLen(t)
        rest == lstrip(SubSeq(t, k + 1, Len(t)))
    IN  IF t = <<>> THEN <<>>
        ELSE IF rest = <<>> THEN <<SubSeq(t, 1, k)>>
        ELSE <<SubSeq(t, 1, k), rest>>

(* ------------------------- values and inputs -------------------------- *)
Chats == {101, 102}
Orders == {"abc123", "xyz789"}
OrderIdLen == 6

\* a JSON field that is missing, null or a string (given by its length or characters)
Absent == [kind |-> "absent"]
Null == [kind |-> "null"]
Str(n) == [kind |-> "str", len |-> n]
Chars(cs) == [kind |-> "str", chars |-> cs]

\* Python truth of such a field: missing, None and "" are falsy
Truthy(v) == v.kind = "str" /\ v.len > 0

(* Inbound texts: optional leading blank, a head, a tail of MaxTail characters. *)
TextHeads ==
    { <<>>, Token, SubSeq(Token, 1, Len(Token) - 1),
      <<"/", "T">> \o SubSeq(Token, 3, Len(Token)), <<"h", "i">> }

RECURSIVE SeqsUpTo(_, _)
SeqsUpTo(S, n) ==
    IF n = 0 THEN {<<>>}
    ELSE LET shorter == SeqsUpTo(S, n - 1)
         IN  shorter \cup {Append(q, c) : q \in shorter, c \in S}

RichTexts ==
    {lead \o head \o tail :
        lead \in {<<>>, <<" ">>}, head \in TextHeads, tail \in SeqsUpTo({" ", "u"}, MaxTail)}

FewTexts ==
    { <<"h", "i">>, Token, Token \o <<" ", "u">>, Token \o <<"u", " ", "u">> }

MessagesOf(T) ==
    [chat_id : Chats, text : {Absent} \cup {Chars(t) : t \in T}]

\* an update: the JSON object Telegram posts
UpdatesOf(T) ==
    LET M == {[kind |-> "obj", msg |-> m] : m \in MessagesOf(T)}
    IN  [update_id : {Absent, Str(1)}, message : {Absent, Null}, edited_message : {Absent, Null}]
        \cup [update_id : {Str(1)}, message : M, edited_message : {Absent}]
        \cup [update_id : {Str(1)}, message : {Absent}, edited_message : M]

\* what Telegram answers to one outbound call
TgOutcomes == {"ok", "notok", "nojson", "neterr"}

\* the answer to the create-order call: a transport failure, or status and body
CreateStatuses == {200, 304, 400, 500}
CreateBodies ==
    {[json |-> FALSE, has_order_id |-> FALSE, order_id |-> "", len |-> n] : n \in {0, 4063}}
    \cup {[json |-> TRUE, has_order_id |-> FALSE, order_id |-> "", len |-> 2]}
    \cup {[json |-> TRUE, has_order_id |-> TRUE, order_id |-> o, len |-> 22] : o \in Orders}
CreateResponses ==
    {[kind |-> "neterr"]} \cup {[kind |-> "http", status |-> st, body |-> b] : st \in CreateStatuses, b \in CreateBodies}

\* the answer to one export call: status and body
ExportStatuses == {200, 202, 404, 500}
ExportBodiesOf(C, U) ==
    {[kind |-> "empty"], [kind |-> "text"]}
    \cup {[kind |-> "obj", content |-> c, presigned_url |-> u] : c \in C, u \in U}
RichExportBodies ==
    ExportBodiesOf({Absent, Null, Str(0), Str(5)}, {Absent, Str(0), Str(4072), Str(4073)})
FewExportBodies ==
    ExportBodiesOf({Absent, Str(5)}, {Absent, Str(4073)})
ExportResponsesOf(B) == [status : ExportStatuses, body : B]

(* ---------------------------- outbound texts -------------------------- *)
Text(kind, pre, arg, argLen, post) ==
    [kind |-> kind, pre |-> pre, arg |-> arg, argLen |-> argLen, post |-> post]
TextLen(t) == t.pre + t.argLen + t.post

UsageText == Text("usage", UsageLen, "", 0, 0)
ReminderText == Text("reminder", ReminderLen, "", 0, 0)
AckText(order_id) == Text("started", AckPrefixLen, order_id, OrderIdLen, AckSuffixLen)
CreateFailedText(body) == Text("create_failed", CreateFailedPrefixLen, "response.text", body.len, 0)
ReadyText(url) == Text("ready", ReadyPrefixLen, "presigned_url", url.len, 0)
NoContentText == Text("no_content", NoContentLen, "", 0, 0)
RetrieveFailedText(status) ==
    Text("retrieve_failed", RetrieveFailedPrefixLen, ToString(status), StatusDigits, RetrieveFailedSuffixLen)

(* ------------------------- Helpers: Telegram --------------------------- *)
\* send_telegram_request raises when requests.post fails or resp.json() cannot parse
RaisesInRequest(outcome) == outcome \in {"nojson", "neterr"}
\* send_document never parses the answer: only requests.post can raise
RaisesInDocument(outcome) == outcome = "neterr"

\* number of iterations of range(0, len(text), max_len)
NumChunks(n) == (n + max_len - 1) \div max_len

\* the outcomes Telegram may give to the calls of one send_message(text)
Fates(text, O) == [1..NumChunks(TextLen(text)) -> O]

\* send_message: one sendMessage call per chunk text[i : i + max_len], in
\* order, until a call raises. Result: the calls issued, and whether it raised.
send_message_nosplit(chat_id, text, fate) ==
    LET n == IF TextLen(text) > 0 THEN 1 ELSE 0
    IN  [calls |-> [k \in 1..n |-> [chat_id |-> chat_id, text |-> text, lo |-> 0,
                                    hi |-> TextLen(text), outcome |-> fate[k]]],
         raised |-> n > 0 /\ RaisesInRequest(fate[1])]
send_message(chat_id, text, fate) ==
    LET n == NumChunks(TextLen(text))
        bad == {k \in 1..n : RaisesInRequest(fate[k])}
        last == IF bad = {} THEN n ELSE CHOOSE k \in bad : \A j \in bad : k <= j
    IN  [calls |-> [k \in 1..last |->
                      [chat_id |-> chat_id, text |-> text,
                       lo |-> (k - 1) * max_len,
                       hi |-> Min(k * max_len, TextLen(text)),
                       outcome |-> fate[k]]],
         raised |-> bad # {}]

\* send_document: one sendDocument upload
send_document_unnamed(chat_id, file_name, file_bytes, outcome) ==
    [calls |-> <<[chat_id |-> chat_id, file_name |-> [stem |-> "transcription", ext |-> ".txt"],
                  file_bytes |-> file_bytes, outcome |-> outcome]>>,
     raised |-> RaisesInDocument(outcome)]
send_document(chat_id, file_name, file_bytes, outcome) ==
    [calls |-> <<[chat_id |-> chat_id, file_name |-> file_name, file_bytes |-> file_bytes,
                  outcome |-> outcome]>>,
     raised |-> RaisesInDocument(outcome)]

(* ----------------------- Helpers: Transkriptor ------------------------- *)
\* resp.raise_for_status(): an HTTPError for a 4xx or 5xx status only
raise_for_status(status) == 400 <= status /\ status < 600

\* create_transcription: the order id, an HTTPError, or another exception
\* (requests.post failing, resp.json() failing, data["order_id"] missing)
create_transcription(cresp) ==
    IF cresp.kind = "neterr" THEN [kind |-> "exception", order_id |-> ""]
    ELSE IF raise_for_status(cresp.status) THEN [kind |-> "HTTPError", order_id |-> ""]
    ELSE IF ~cresp.body.json THEN [kind |-> "exception", order_id |-> ""]
    ELSE IF ~cresp.body.has_order_id THEN [kind |-> "exception", order_id |-> ""]
    ELSE [kind |-> "ok", order_id |-> cresp.body.order_id]

\* export_transcription: (status_code, json), or an exception when the body
\* is not empty and resp.json() cannot parse it
export_transcription(resp) ==
    IF resp.body.kind = "text" THEN [kind |-> "exception"]
    ELSE IF resp.body.kind = "empty"
    THEN [kind |-> "ok", status_code |-> resp.status,
          data |-> [kind |-> "obj", content |-> Absent, presigned_url |-> Absent]]
    ELSE [kind |-> "ok", status_code |-> resp.status, data |-> resp.body]

(* ------------------------------ state ---------------------------------- *)
VARIABLES
    handled, \* the number of webhook invocations handled so far
    req,     \* the last webhook invocation: its input and everything it did
    tasks    \* the delivery threads started so far, each with what it did

vars == <<handled, req, tasks>>

NoResponse == [kind |-> "none"]
NoText == Text("none", 0, "", 0, 0)

\* a thread just started on poll_and_send(order_id, chat_id) by invocation cmd
NewTask(cmd, order_id, chat_id) ==
    [cmd |-> cmd, order_id |-> order_id, chat_id |-> chat_id, state |-> "Polling",
     exports |-> <<>>, answers |-> <<>>, sleeps |-> 0, resp |-> NoResponse, sends |-> 0,
     docs |-> <<>>, msgs |-> <<>>, exits |-> 0]

(* ------------------------------ Flask App ------------------------------ *)
\* `if not update`: an empty JSON object
update_is_empty(u) ==
    u.update_id = Absent /\ u.message = Absent /\ u.edited_message = Absent

\* update.get("message") or update.get("edited_message")
message_of(u) == IF u.message.kind = "obj" THEN u.message ELSE u.edited_message

\* message.get("text", "").strip()
text_of(msg) == IF msg.text.kind = "str" THEN strip(msg.text.chars) ELSE <<>>

\* What telegram_webhook does with the text of a message up to its one
\* send_message call: whether it calls create_transcription, what that gave,
\* and the text it sends.
command_plan(text, cresp) ==
    LET parts == split_maxsplit1(text)
        created == create_transcription(cresp)
    IN  IF startswith(text, Token)
        THEN IF Len(parts) # 2
             THEN [reply |-> TRUE, create |-> FALSE, result |-> "none",
                   order_id |-> "", text |-> UsageText]
             ELSE IF created.kind = "ok"
             THEN [reply |-> TRUE, create |-> TRUE, result |-> "ok",
                   order_id |-> created.order_id, text |-> AckText(created.order_id)]
             ELSE IF created.kind = "HTTPError"
             THEN [reply |-> TRUE, create |-> TRUE, result |-> "HTTPError",
                   order_id |-> "", text |-> CreateFailedText(cresp.body)]
             ELSE [reply |-> FALSE, create |-> TRUE, result |-> "exception",
                   order_id |-> "", text |-> NoText]
        ELSE [reply |-> TRUE, create |-> FALSE, result |-> "none",
              order_id |-> "", text |-> ReminderText]

\* the two early returns of telegram_webhook, then the command
webhook_plan_unguarded(update, cresp) ==
    IF update_is_empty(update) \/ message_of(update).kind # "obj"
    THEN command_plan(<<>>, cresp)
    ELSE command_plan(text_of(message_of(update).msg), cresp)
webhook_plan(update, cresp) ==
    IF update_is_empty(update) \/ message_of(update).kind # "obj"
    THEN [reply |-> FALSE, create |-> FALSE, result |-> "none", order_id |-> "", text |-> NoText]
    ELSE command_plan(text_of(message_of(update).msg), cresp)

\* the chat the handler answers (message["chat"]["id"]); 0 when it reads none
chat_of(update) ==
    IF update_is_empty(update) \/ message_of(update).kind # "obj" THEN 0
    ELSE message_of(update).msg.chat_id

\* the thread is started only when create_transcription returned and the
\* acknowledgment's send_message did not raise
starts_thread(plan, sent) == plan.result = "ok" /\ ~sent.raised

\* the calls of one invocation in the order of its statements: the
\* create-order call, then send_message, then Thread(...).start()
handler_events_start_first(plan, start) ==
    (IF plan.create THEN <<"create_transcription">> ELSE <<>>)
    \o (IF start THEN <<"Thread.start">> ELSE <<>>)
    \o (IF plan.reply THEN <<"send_message">> ELSE <<>>)
handler_events(plan, start) ==
    (IF plan.create THEN <<"create_transcription">> ELSE <<>>)
    \o (IF plan.reply THEN <<"send_message">> ELSE <<>>)
    \o (IF start THEN <<"Thread.start">> ELSE <<>>)

\* What one invocation of telegram_webhook does, from the request to the HTTP
\* response: an uncaught exception makes Flask answer 500.
handle(update, cresp, fate) ==
    LET plan == webhook_plan(update, cresp)
        chat == chat_of(update)
        sent == IF plan.reply THEN send_message(chat, plan.text, fate)
                ELSE [calls |-> <<>>, raised |-> FALSE]
        start == starts_thread(plan, sent)
        failed == plan.result = "exception" \/ sent.raised
        done == [update |-> update,
                chat_id |-> chat,
                text |-> IF chat = 0 THEN <<>> ELSE text_of(message_of(update).msg),
                create_calls |-> IF plan.create THEN 1 ELSE 0,
                cresp |-> IF plan.create THEN cresp ELSE NoResponse,
                result |-> plan.result,
                sends |-> IF plan.reply THEN 1 ELSE 0,
                reply |-> plan.text,
                msgs |-> sent.calls,
                started |-> IF start THEN 1 ELSE 0,
                events |-> handler_events(plan, start),
                http_status |-> IF failed THEN 500 ELSE 200,
                http_body |-> IF failed THEN "Internal Server Error" ELSE "{}"]
    IN  [done |-> done, order_id |-> plan.order_id]

\* One invocation of telegram_webhook.
telegram_webhook(update, cresp, fate) ==
    LET h == handle(update, cresp, fate)
    IN  /\ handled' = handled + 1
        /\ req' = h.done
        /\ tasks' = IF h.done.started = 1
                    THEN Append(tasks, NewTask(handled + 1, h.order_id, h.done.chat_id))
                    ELSE tasks

(* ---------------------------- Background job --------------------------- *)
\* What one iteration of the loop of poll_and_send does with the answer to
\* its export call: "raise" (export_transcription raised), "document",
\* "message", or "sleep".
iteration_no_fallback(order_id, exported) ==
    IF exported.kind = "exception"
    THEN [kind |-> "raise", text |-> NoText, content |-> Absent]
    ELSE IF exported.status_code = 200
    THEN IF Truthy(exported.data.content)
         THEN [kind |-> "document", text |-> NoText, content |-> exported.data.content]
         ELSE IF Truthy(exported.data.presigned_url)
         THEN [kind |-> "message", text |-> ReadyText(exported.data.presigned_url),
               content |-> Absent]
         ELSE [kind |-> "message", text |-> RetrieveFailedText(exported.status_code),
               content |-> Absent]
    ELSE IF exported.status_code = 202
    THEN [kind |-> "sleep", text |-> NoText, content |-> Absent]
    ELSE [kind |-> "message", text |-> RetrieveFailedText(exported.status_code),
          content |-> Absent]
iteration_url_first(order_id, exported) ==
    IF exported.kind = "exception"
    THEN [kind |-> "raise", text |-> NoText, content |-> Absent]
    ELSE IF exported.status_code = 200
    THEN IF Truthy(exported.data.presigned_url)
         THEN [kind |-> "message", text |-> ReadyText(exported.data.presigned_url),
               content |-> Absent]
         ELSE IF Truthy(exported.data.content)
         THEN [kind |-> "document", text |-> NoText, content |-> exported.data.content]
         ELSE [kind |-> "message", text |-> NoContentText, content |-> Absent]
    ELSE IF exported.status_code = 202
    THEN [kind |-> "sleep", text |-> NoText, content |-> Absent]
    ELSE [kind |-> "message", text |-> RetrieveFailedText(exported.status_code),
          content |-> Absent]
iteration(order_id, exported) ==
    IF exported.kind = "exception"
    THEN [kind |-> "raise", text |-> NoText, content |-> Absent]
    ELSE IF exported.status_code = 200
    THEN IF Truthy(exported.data.content)
         THEN [kind |-> "document", text |-> NoText, content |-> exported.data.content]
         ELSE IF Truthy(exported.data.presigned_url)
         THEN [kind |-> "message", text |-> ReadyText(exported.data.presigned_url),
               content |-> Absent]
         ELSE [kind |-> "message", text |-> NoContentText, content |-> Absent]
    ELSE IF exported.status_code = 202
    THEN [kind |-> "sleep", text |-> NoText, content |-> Absent]
    ELSE [kind |-> "message", text |-> RetrieveFailedText(exported.status_code),
          content |-> Absent]

\* the outcomes Telegram may give to the calls of one iteration
IterationFates(order_id, resp, O) ==
    LET it == iteration(order_id, export_transcription(resp))
    IN  IF it.kind = "document" THEN [1..1 -> O]
        ELSE IF it.kind = "message" THEN Fates(it.text, O)
        ELSE {<<>>}

\* The thread `task` after one iteration of `while True` in poll_and_send:
\* the export call, its answer resp, and everything the loop body does with it.
after_iteration(task, resp, fate) ==
    LET it == iteration(task.order_id, export_transcription(resp))
        polled == [task EXCEPT !.exports = Append(@, task.order_id),
                               !.answers = Append(@, resp.status), !.resp = resp]
        doc == send_document(task.chat_id, [stem |-> task.order_id, ext |-> ".txt"],
                             [encoding |-> "utf-8", of |-> it.content], fate[1])
        msg == send_message(task.chat_id, it.text, fate)
    IN  IF it.kind = "raise"
        THEN [polled EXCEPT !.state = "Crashed", !.exits = @ + 1]
        ELSE IF it.kind = "sleep"
        THEN [polled EXCEPT !.state = "Sleeping", !.sleeps = @ + 1]
        ELSE IF it.kind = "document"
        THEN [polled EXCEPT !.state = IF doc.raised THEN "Crashed" ELSE "Done",
                            !.exits = @ + 1, !.sends = @ + 1,
                            !.docs = @ \o doc.calls]
        ELSE [polled EXCEPT !.state = IF msg.raised THEN "Crashed" ELSE "Done",
                            !.exits = @ + 1, !.sends = @ + 1,
                            !.msgs = @ \o msg.calls]

\* One iteration of the loop of poll_and_send run by thread t.
poll_and_send_shared_chat(t, resp, fate) ==
    /\ tasks[t].state = "Polling"
    /\ tasks' = [tasks EXCEPT ![t] =
                    [after_iteration([tasks[t] EXCEPT !.chat_id = req.chat_id], resp, fate)
                        EXCEPT !.chat_id = tasks[t].chat_id]]
    /\ UNCHANGED <<handled, req>>
poll_and_send_serial(t, resp, fate) ==
    /\ tasks[t].state = "Polling"
    /\ \A u \in 1..(t - 1) : tasks[u].state \in {"Done", "Crashed"}
    /\ tasks' = [tasks EXCEPT ![t] = after_iteration(tasks[t], resp, fate)]
    /\ UNCHANGED <<handled, req>>
poll_and_send(t, resp, fate) ==
    /\ tasks[t].state = "Polling"
    /\ tasks' = [tasks EXCEPT ![t] = after_iteration(tasks[t], resp, fate)]
    /\ UNCHANGED <<handled, req>>

\* time.sleep(POLL_INTERVAL) returns: the loop goes round to the next export call
wake_resumes(t) ==
    /\ tasks[t].state \in {"Sleeping", "Done"}
    /\ tasks' = [tasks EXCEPT ![t].state = "Polling"]
    /\ UNCHANGED <<handled, req>>
wake(t) ==
    /\ tasks[t].state = "Sleeping"
    /\ tasks' = [tasks EXCEPT ![t].state = "Polling"]
    /\ UNCHANGED <<handled, req>>

(* --------------------------- specifications ---------------------------- *)
NoRequest == [update |-> [update_id |-> Absent, message |-> Absent, edited_message |-> Absent],
              chat_id |-> 0, text |-> <<>>, create_calls |-> 0, cresp |-> NoResponse,
              result |-> "none", sends |-> 0, reply |-> NoText, msgs |-> <<>>,
              started |-> 0, events |-> <<>>, http_status |-> 0, http_body |-> ""]

Init ==
    /\ handled = 0
    /\ req = NoRequest
    /\ tasks = <<>>

Webhook(U, C, O) ==
    \E update \in U, cresp \in C :
        \E fate \in Fates(webhook_plan(update, cresp).text, O) :
            telegram_webhook(update, cresp, fate)

\* one iteration of one thread; a thread makes at most N export calls
Poll(R, O, N) ==
    \E t \in DOMAIN tasks, resp \in R :
        \E fate \in IterationFates(tasks[t].order_id, resp, O) :
            /\ Len(tasks[t].exports) < N
            /\ poll_and_send(t, resp, fate)

Wake == \E t \in DOMAIN tasks : wake(t)

(* The whole relay: at most MaxUpdates webhook invocations and the threads *)
(* they start, with a few inputs of every kind and Telegram accepting      *)
(* every send (failed sends are inputs of SpecWebhook and SpecTask).       *)
FewUpdates ==
    {u \in UpdatesOf(FewTexts) :
        /\ u.message # Null /\ u.edited_message = Absent
        /\ u.message = Absent => u.update_id = Absent
        /\ u.message # Absent =>
             /\ u.message.msg.text \in {Chars(<<"h", "i">>), Chars(Token \o <<" ", "u">>)}
             /\ u.message.msg.text = Chars(<<"h", "i">>) => u.message.msg.chat_id = 101}
FewCreateResponses ==
    {r \in CreateResponses :
        /\ r.kind = "http"
        /\ r.status \in {200, 400}
        /\ r.status = 400 => ~r.body.json /\ r.body.len # 0
        /\ r.status = 200 => r.body.json}
FewExportResponses ==
    {r \in ExportResponsesOf(FewExportBodies) :
        \/ r.status = 200 /\ r.body.kind = "obj"
                          /\ (r.body.content = Absent) # (r.body.presigned_url = Absent)
        \/ r.status = 202 /\ r.body.kind = "empty"
        \/ r.status = 500 /\ r.body.kind = "text"}
FewOutcomes == {"ok"}

Next ==
    \/ handled < MaxUpdates /\ Webhook(FewUpdates, FewCreateResponses, FewOutcomes)
    \/ Poll(FewExportResponses, FewOutcomes, MaxPolls)
    \/ Wake

Spec == Init /\ [][Next]_vars

(* One webhook invocation from the initial state, over every inbound text  *)
(* and every answer to the create-order call and to the sends; the thread  *)
(* it starts is not scheduled.                                            *)
NextWebhook ==
    handled = 0 /\ Webhook(UpdatesOf(RichTexts), CreateResponses, TgOutcomes)

SpecWebhook == Init /\ [][NextWebhook]_vars

(* One delivery thread, from the invocation that started it, over every    *)
(* answer to its export calls and to its sends.                            *)
InitTask ==
    \E update \in FewUpdates, cresp \in FewCreateResponses :
        \E fate \in Fates(webhook_plan(update, cresp).text, {"ok", "notok"}) :
            LET h == handle(update, cresp, fate)
            IN  /\ h.done.started = 1
                /\ handled = 1
                /\ req = h.done
                /\ tasks = <<NewTask(1, h.order_id, h.done.chat_id)>>

NextTask ==
    \/ Poll(ExportResponsesOf(RichExportBodies), TgOutcomes, MaxTaskPolls)
    \/ Wake

SpecTask == InitTask /\ [][NextTask]_vars

(* ------------------------------ claims --------------------------------- *)
Terminated(task) == task.state \in {"Done", "Crashed"}
Answered(task) == task.resp # NoResponse
TasksOf(i) == {t \in DOMAIN tasks : tasks[t].cmd = i}

\* the sendMessage call holds the whole argument of its text (the URL, the status)
ContainsArg(call) ==
    call.lo <= call.text.pre /\ call.text.pre + call.text.argLen <= call.hi

(* C1: a delivery task terminates at most once and makes at most one result *)
(* delivery (one send_document or one send_message); once it has delivered  *)
(* it makes no further export call and no further send; and each webhook    *)
(* invocation starts at most one delivery task.                             *)
C1_State ==
    /\ \A t \in DOMAIN tasks :
        /\ tasks[t].exits <= 1
        /\ tasks[t].sends <= 1
        /\ tasks[t].exits = 1 <=> Terminated(tasks[t])
        /\ tasks[t].sends = 1 => Terminated(tasks[t])
    /\ req.started <= 1
    /\ \A i \in 1..handled : Cardinality(TasksOf(i)) <= 1
    /\ \A t \in DOMAIN tasks : tasks[t].cmd \in 1..handled

C1_Step ==
    /\ \A t \in DOMAIN tasks : Terminated(tasks[t]) => tasks'[t] = tasks[t]
    /\ Len(tasks') <= Len(tasks) + 1
    /\ Len(tasks') = Len(tasks) + 1 => handled' = handled + 1

C1_AtMostOneDelivery == [](C1_State) /\ [][C1_Step]_vars

\* two commands were accepted; both threads delivered, one after a sleep
C1_Witness ==
    /\ Len(tasks) = 2
    /\ \A t \in DOMAIN tasks : tasks[t].state = "Done" /\ tasks[t].sends = 1
    /\ \E t \in DOMAIN tasks : Len(tasks[t].exports) = 2

(* C2: an export status other than 200 and 202 makes the task send exactly  *)
(* one failure message carrying the status code and terminate, whatever the *)
(* body of that response is.                                                *)
C2_FailureMessageForAnyBody ==
    \A t \in DOMAIN tasks :
        Answered(tasks[t]) /\ tasks[t].resp.status \notin {200, 202} =>
            /\ Terminated(tasks[t])
            /\ tasks[t].docs = <<>>
            /\ Len(tasks[t].msgs) = 1
            /\ tasks[t].msgs[1].chat_id = tasks[t].chat_id
            /\ tasks[t].msgs[1].text = RetrieveFailedText(tasks[t].resp.status)
            /\ ContainsArg(tasks[t].msgs[1])

(* C3: an export response with status 200 whose content is set (a non-empty *)
(* string, what `if content:` accepts) makes the task send exactly one      *)
(* document and no message, and terminate.                                  *)
HasContent(resp) ==
    /\ resp.status = 200 /\ resp.body.kind = "obj"
    /\ resp.body.content.kind = "str" /\ resp.body.content.len > 0

C3_ContentGivesOneDocument ==
    \A t \in DOMAIN tasks :
        Answered(tasks[t]) /\ HasContent(tasks[t].resp) =>
            /\ Terminated(tasks[t])
            /\ Len(tasks[t].docs) = 1
            /\ tasks[t].docs[1].chat_id = tasks[t].chat_id
            /\ tasks[t].msgs = <<>>
            /\ tasks[t].sends = 1

\* content and presigned_url both present: the document was sent
C3_Witness ==
    \E t \in DOMAIN tasks :
        /\ Answered(tasks[t]) /\ HasContent(tasks[t].resp)
        /\ tasks[t].resp.body.presigned_url = Str(4073)
        /\ tasks[t].state = "Done" /\ Len(tasks[t].docs) = 1

(* C4: an export response with status 200 that carries only presigned_url   *)
(* makes the task issue exactly one sendMessage call, whose text contains   *)
(* the URL, and no document, for every URL (also one whose composed text is *)
(* longer than 4096).                                                       *)
OnlyUrl(resp) ==
    /\ resp.status = 200 /\ resp.body.kind = "obj"
    /\ ~(resp.body.content.kind = "str" /\ resp.body.content.len > 0)
    /\ resp.body.presigned_url.kind = "str" /\ resp.body.presigned_url.len > 0

C4_OneCallForAnyUrl ==
    \A t \in DOMAIN tasks :
        Answered(tasks[t]) /\ OnlyUrl(tasks[t].resp) =>
            /\ tasks[t].docs = <<>>
            /\ Len(tasks[t].msgs) = 1
            /\ tasks[t].msgs[1].text = ReadyText(tasks[t].resp.body.presigned_url)
            /\ ContainsArg(tasks[t].msgs[1])

(* C4 amended: such a response makes the task call send_message once and    *)
(* send no document; the composed text "Transcription is ready: <url>" is   *)
(* sent as consecutive chunks of at most 4096 units, in order from its      *)
(* start, at least one and at most ceil(length/4096) of them, all of them   *)
(* when no send raises; a composed text of at most 4096 units is one        *)
(* sendMessage call whose text contains the URL.                            *)
C4_LinkSentInChunks ==
    \A t \in DOMAIN tasks :
        Answered(tasks[t]) /\ OnlyUrl(tasks[t].resp) =>
            LET text == ReadyText(tasks[t].resp.body.presigned_url)
                n == TextLen(text)
                calls == tasks[t].msgs
                whole == (n + 4095) \div 4096
            IN  /\ tasks[t].docs = <<>>
                /\ tasks[t].sends = 1
                /\ Len(calls) >= 1 /\ Len(calls) <= whole
                /\ \A k \in DOMAIN calls :
                    /\ calls[k].chat_id = tasks[t].chat_id
                    /\ calls[k].text = text
                    /\ calls[k].lo = (IF k = 1 THEN 0 ELSE calls[k - 1].hi)
                    /\ calls[k].lo < calls[k].hi
                    /\ calls[k].hi - calls[k].lo <= 4096
                    /\ calls[k].hi <= n
                    /\ k < Len(calls) => calls[k].hi - calls[k].lo = 4096
                /\ tasks[t].state = "Done" => Len(calls) = whole /\ calls[whole].hi = n
                /\ n <= 4096 => Len(calls) = 1 /\ ContainsArg(calls[1])

\* a link of 4073 units: the composed text has 4097 and went out in two calls
C4_Witness ==
    \E t \in DOMAIN tasks :
        /\ Answered(tasks[t]) /\ OnlyUrl(tasks[t].resp)
        /\ tasks[t].resp.body.presigned_url.len = 4073
        /\ tasks[t].state = "Done" /\ Len(tasks[t].msgs) = 2

(* C5: an export response with status 202 never terminates the task and     *)
(* never sends anything: the task sleeps and then polls the same order      *)
(* again.                                                                   *)
C5_AcceptedNeverTerminates ==
    \A t \in DOMAIN tasks :
        Answered(tasks[t]) /\ tasks[t].resp.status = 202 =>
            /\ tasks[t].state \in {"Sleeping", "Polling"}
            /\ tasks[t].exits = 0
            /\ tasks[t].sends = 0 /\ tasks[t].msgs = <<>> /\ tasks[t].docs = <<>>
            /\ tasks[t].sleeps = Len(tasks[t].exports)
            /\ \A k \in DOMAIN tasks[t].exports : tasks[t].exports[k] = tasks[t].order_id

(* The last webhook invocation handled an update that carries a message. *)
HasMessage == handled >= 1 /\ req.chat_id # 0

\* the text begins with the characters of the command token
BeginsWithToken(text) ==
    Len(text) >= 11 /\ SubSeq(text, 1, 11) = <<"/", "t", "r", "a", "n", "s", "c", "r", "i", "b", "e">>

\* the token, then whitespace, then a non-empty argument
TokenBlankArgument(text) ==
    /\ BeginsWithToken(text)
    /\ \E k \in 12..(Len(text) - 1) :
        /\ \A i \in 12..k : text[i] \in {" ", "\t"}
        /\ text[k + 1] \notin {" ", "\t"}

\* the invocation sent one short text in one sendMessage call to its chat
SentOnce(text) ==
    /\ req.sends = 1
    /\ req.reply = text
    /\ Len(req.msgs) = 1
    /\ req.msgs[1].chat_id = req.chat_id
    /\ req.msgs[1].text = text
    /\ req.msgs[1].lo = 0 /\ req.msgs[1].hi = TextLen(text)

(* C6: every invocation on an update that carries a message sends exactly   *)
(* one acknowledgment, usage or failure message before it returns, on every *)
(* path, a failed submission of any kind included; on a successful          *)
(* submission it also starts exactly one delivery task.                     *)
C6_OneMessageOnEveryPath ==
    HasMessage =>
        /\ req.sends = 1
        /\ Len(req.msgs) = 1
        /\ req.msgs[1].chat_id = req.chat_id
        /\ req.result = "ok" => req.started = 1 /\ Cardinality(TasksOf(handled)) = 1
        /\ req.result # "ok" => req.started = 0 /\ TasksOf(handled) = {}

(* C7: when the create-order call returns a non-2xx status the handler      *)
(* sends a message containing "Failed to create transcription" and starts   *)
(* no delivery task.                                                        *)
C7_Non2xxReportsFailure ==
    /\ handled >= 1 /\ req.create_calls = 1 /\ req.cresp.kind = "http"
    /\ req.cresp.status < 200 \/ req.cresp.status >= 300
    =>  /\ Len(req.msgs) >= 1
        /\ req.msgs[1].text.kind = "create_failed"
        /\ req.msgs[1].lo = 0 /\ req.msgs[1].hi >= 34
        /\ req.started = 0
        /\ TasksOf(handled) = {}

(* C8: the handler calls create-order only when the trimmed text is the     *)
(* token /transcribe, then whitespace, then a non-empty argument; for every *)
(* other text it replies with a usage hint and makes no create-order call.  *)
C8_CommandNeedsBlankAfterToken ==
    HasMessage =>
        /\ req.create_calls = 1 => TokenBlankArgument(req.text)
        /\ ~TokenBlankArgument(req.text) =>
              /\ req.create_calls = 0
              /\ req.reply \in {UsageText, ReminderText}

(* C9: an update that has neither a message nor an edited_message (or is    *)
(* empty) is answered 200 with an empty body, with no chat message, no      *)
(* create-order call and no delivery task.                                  *)
C9_NoMessageNoEffect ==
    /\ handled >= 1
    /\ req.update.message.kind # "obj" /\ req.update.edited_message.kind # "obj"
    =>  /\ req.http_status = 200 /\ req.http_body = "{}"
        /\ req.sends = 0 /\ req.msgs = <<>>
        /\ req.create_calls = 0
        /\ req.started = 0 /\ tasks = <<>>

\* a non-empty update without either field was answered 200 {}
C9_Witness ==
    /\ handled = 1
    /\ req.update.update_id = Str(1)
    /\ req.update.message = Absent /\ req.update.edited_message = Absent
    /\ req.http_status = 200

(* C10: for every message whose text, as the handler trims it, does not     *)
(* start with /transcribe (case-sensitive), the handler sends exactly the   *)
(* reminder message, in one call, and makes no create-order call and starts *)
(* no delivery task.                                                        *)
C10_OtherTextGetsReminder ==
    HasMessage /\ ~BeginsWithToken(req.text) =>
        /\ SentOnce(ReminderText)
        /\ req.create_calls = 0
        /\ req.started = 0 /\ tasks = <<>>

\* "/Transcribe u": the token in another case, with an argument
C10_Witness ==
    /\ HasMessage
    /\ req.text = <<"/", "T", "r", "a", "n", "s", "c", "r", "i", "b", "e", " ", "u">>
    /\ SentOnce(ReminderText)

(* C11: telegram_webhook answers HTTP 200 with body {} in all cases, also   *)
(* when the order submission fails in any way and when an outbound send     *)
(* fails.                                                                   *)
C11_AlwaysAnswers200 ==
    handled >= 1 => req.http_status = 200 /\ req.http_body = "{}"

(* C12: order submission is one create-order call, never repeated, and      *)
(* every failing answer to it (a non-2xx status, or a 2xx status whose body *)
(* lacks order_id) puts a failure message in the chat and starts no         *)
(* delivery task.                                                           *)
SubmissionFailed(cresp) ==
    /\ cresp.kind = "http"
    /\ \/ cresp.status < 200 \/ cresp.status >= 300
       \/ ~cresp.body.json
       \/ ~cresp.body.has_order_id

C12_EveryFailureSurfaced ==
    /\ handled >= 1 => req.create_calls <= 1
    /\ handled >= 1 /\ req.create_calls = 1 /\ SubmissionFailed(req.cresp)
       =>  /\ req.sends = 1
           /\ Len(req.msgs) >= 1
           /\ req.msgs[1].chat_id = req.chat_id
           /\ req.msgs[1].text = CreateFailedText(req.cresp.body)
           /\ req.started = 0
           /\ TasksOf(handled) = {}

(* C13: a failed outbound send is only logged: a delivery task that made    *)
(* its send reaches Done whatever the outcome of the calls, every chunk of  *)
(* its text is attempted once, none twice, and an invocation whose          *)
(* acknowledgment send failed still starts its delivery task.               *)
FailedOutcome(call) == call.outcome # "ok"

C13_FailedSendOnlyLogged ==
    /\ \A t \in DOMAIN tasks :
        tasks[t].sends = 1 =>
            /\ tasks[t].state = "Done"
            /\ Len(tasks[t].docs) <= 1
            /\ \A k \in DOMAIN tasks[t].msgs :
                 /\ Len(tasks[t].msgs) = NumChunks(TextLen(tasks[t].msgs[k].text))
                 /\ tasks[t].msgs[k].lo = (k - 1) * max_len
    /\ handled >= 1 /\ req.result = "ok" /\ (\E k \in DOMAIN req.msgs : FailedOutcome(req.msgs[k]))
       => req.started = 1 /\ req.http_status = 200

(* C14: send_message sends a text of n units as exactly ceil(n/4096)        *)
(* messages, each of at most 4096 units, in order, whose concatenation is   *)
(* the text: the chunks start at 0, each starts where the one before ends,  *)
(* and the last one ends at n.                                              *)
ExactChunks(calls) ==
    LET n == TextLen(calls[1].text)
        whole == (n + 4095) \div 4096
    IN  /\ Len(calls) = whole
        /\ \A k \in DOMAIN calls :
             /\ calls[k].text = calls[1].text
             /\ calls[k].lo = (IF k = 1 THEN 0 ELSE calls[k - 1].hi)
             /\ calls[k].hi - calls[k].lo <= 4096
             /\ calls[k].hi = (IF k = whole THEN n ELSE calls[k].lo + 4096)

C14_ExactlyCeilChunks ==
    /\ \A t \in DOMAIN tasks : tasks[t].msgs # <<>> => ExactChunks(tasks[t].msgs)
    /\ req.msgs # <<>> => ExactChunks(req.msgs)

(* C15: when the export call has answered 202 exactly k times and then 200  *)
(* with content c, the task has made exactly k + 1 export calls for its     *)
(* order and exactly k sleeps, and has sent exactly one document, named     *)
(* <order_id>.txt, whose bytes are the encoding of c, and no message.       *)
AcceptedThenContent(task) ==
    /\ Answered(task) /\ HasContent(task.resp)
    /\ Len(task.answers) >= 1
    /\ task.answers[Len(task.answers)] = 200
    /\ \A i \in 1..(Len(task.answers) - 1) : task.answers[i] = 202

C15_SleepsThenOneDocument ==
    \A t \in DOMAIN tasks :
        AcceptedThenContent(tasks[t]) =>
            LET k == Len(tasks[t].answers) - 1
            IN  /\ tasks[t].sleeps = k
                /\ Len(tasks[t].exports) = k + 1
                /\ \A i \in DOMAIN tasks[t].exports : tasks[t].exports[i] = tasks[t].order_id
                /\ tasks[t].sends = 1
                /\ tasks[t].msgs = <<>>
                /\ Len(tasks[t].docs) = 1
                /\ tasks[t].docs[1].chat_id = tasks[t].chat_id
                /\ tasks[t].docs[1].file_name = [stem |-> tasks[t].order_id, ext |-> ".txt"]
                /\ tasks[t].docs[1].file_bytes =
                       [encoding |-> "utf-8", of |-> tasks[t].resp.body.content]
                /\ tasks[t].state \in {"Done", "Crashed"}

\* order abc123 answered 202, 202, then 200 with a content of five units
C15_Witness ==
    \E t \in DOMAIN tasks :
        /\ tasks[t].order_id = "abc123"
        /\ tasks[t].answers = <<202, 202, 200>>
        /\ tasks[t].resp.body.kind = "obj" /\ tasks[t].resp.body.content = Str(5)
        /\ tasks[t].sleeps = 2
        /\ Len(tasks[t].docs) = 1
        /\ tasks[t].docs[1].file_name = [stem |-> "abc123", ext |-> ".txt"]
        /\ tasks[t].state = "Done"

(* C16: once an export call of a task is answered with a status other than  *)
(* 202 the task sends its one result or failure notification and finishes   *)
(* normally, and a task whose answers were all 202 has not terminated.      *)
(* (Safety part of the liveness claim: an answer and the send that follows  *)
(* it are one step of the task, so the state after a non-202 answer already *)
(* shows the notification.)                                                 *)
AllAccepted(task) == \A i \in DOMAIN task.answers : task.answers[i] = 202

C16_NonAcceptedAnswerDelivers ==
    \A t \in DOMAIN tasks :
        /\ Answered(tasks[t]) /\ ~AllAccepted(tasks[t])
           =>  /\ tasks[t].sends = 1
               /\ Len(tasks[t].msgs) + Len(tasks[t].docs) >= 1
               /\ tasks[t].state = "Done"
        /\ AllAccepted(tasks[t]) => ~Terminated(tasks[t])

(* C17: on export status 200 (with a body the export call could read) the   *)
(* result is classified content first: with content, and also with content  *)
(* and presigned_url both, only the document is sent and no message; a link *)
(* message is sent only when content is absent or empty and presigned_url   *)
(* is present; with neither, exactly one "completed but no content" message *)
(* is sent.                                                                 *)
Read200(task) == Answered(task) /\ task.resp.status = 200 /\ task.resp.body.kind # "text"
ContentOf(resp) == IF resp.body.kind = "obj" THEN resp.body.content ELSE Absent
UrlOf(resp) == IF resp.body.kind = "obj" THEN resp.body.presigned_url ELSE Absent
Present(v) == v.kind = "str" /\ v.len > 0

CanHandleUpdate == ENABLED Webhook(FewUpdates, FewCreateResponses, FewOutcomes)

CanDeliver(t) ==
    ENABLED (\E resp \in FewExportResponses :
                \E fate \in IterationFates(tasks[t].order_id, resp, FewOutcomes) :
                    /\ poll_and_send(t, resp, fate)
                    /\ tasks'[t].state = "Done"
                    /\ tasks'[t].sends = 1)

OwnStep(t) ==
    \/ tasks'[t] = [tasks[t] EXCEPT !.state = "Polling"]
    \/ \E resp \in FewExportResponses :
          \E fate \in IterationFates(tasks[t].order_id, resp, FewOutcomes) :
              tasks'[t] = after_iteration(tasks[t], resp, fate)

C18_Ready ==
    /\ CanHandleUpdate
    /\ \A t \in DOMAIN tasks :
          tasks[t].state = "Polling" => CanDeliver(t)

C18_Step ==
    /\ \A u \in DOMAIN tasks : u \in DOMAIN tasks'
    /\ handled' # handled => \A u \in DOMAIN tasks : tasks'[u] = tasks[u]
    /\ handled' = handled =>
          /\ req' = req
          /\ DOMAIN tasks' = DOMAIN tasks
          /\ LET changed == {u \in DOMAIN tasks : tasks'[u] # tasks[u]}
             IN  /\ Cardinality(changed) = 1
                 /\ \A t \in changed : OwnStep(t)

C18_TasksIndependent == [](C18_Ready) /\ [][C18_Step]_vars

\* the first task is still polling after two 202 answers while the task
\* started after it has delivered its result and terminated
C18_Witness ==
    /\ Len(tasks) = 2
    /\ tasks[1].state = "Polling" /\ tasks[1].answers = <<202, 202>>
    /\ tasks[2].state = "Done" /\ tasks[2].sends = 1
    /\ tasks[2].resp.status = 200

(* C19: under any interleaving of commands and delivery tasks, a task is    *)
(* started with the order_id that create-order returned for its command and *)
(* with the chat_id of that command's message, keeps both for good, and     *)
(* uses them in every export call and every send: each export call names    *)
(* its order, each message and document goes to its chat, and a document is *)
(* named after its order.                                                   *)
C19_State ==
    \A t \in DOMAIN tasks :
        /\ \A k \in DOMAIN tasks[t].exports : tasks[t].exports[k] = tasks[t].order_id
        /\ \A k \in DOMAIN tasks[t].msgs : tasks[t].msgs[k].chat_id = tasks[t].chat_id
        /\ \A k \in DOMAIN tasks[t].docs :
              /\ tasks[t].docs[k].chat_id = tasks[t].chat_id
              /\ tasks[t].docs[k].file_name.stem = tasks[t].order_id

C19_Step ==
    /\ \A t \in DOMAIN tasks :
          /\ t \in DOMAIN tasks'
          /\ tasks'[t].order_id = tasks[t].order_id
          /\ tasks'[t].chat_id = tasks[t].chat_id
          /\ tasks'[t].cmd = tasks[t].cmd
    /\ \A t \in DOMAIN tasks' \ DOMAIN tasks :
          /\ handled' = handled + 1
          /\ tasks'[t].cmd = handled'
          /\ req'.cresp.kind = "http" /\ req'.cresp.body.has_order_id
          /\ tasks'[t].order_id = req'.cresp.body.order_id
          /\ req'.update.message.kind = "obj"
          /\ tasks'[t].chat_id = req'.update.message.msg.chat_id
          /\ tasks'[t].exports = <<>> /\ tasks'[t].msgs = <<>> /\ tasks'[t].docs = <<>>

C19_OwnOrderAndChat == [](C19_State) /\ [][C19_Step]_vars

\* two commands from two chats for two orders, the second handled last: the
\* document of the first went to its own chat under its own order name
C19_Witness ==
    /\ Len(tasks) = 2
    /\ tasks[1].chat_id # tasks[2].chat_id
    /\ tasks[1].order_id # tasks[2].order_id
    /\ req.chat_id = tasks[2].chat_id
    /\ Len(tasks[1].docs) = 1
    /\ tasks[1].docs[1].chat_id = tasks[1].chat_id
    /\ tasks[1].docs[1].file_name.stem = tasks[1].order_id
    /\ Len(tasks[2].msgs) >= 1
    /\ tasks[2].msgs[1].chat_id = tasks[2].chat_id

(* C20: for every accepted order the create-order call returns, then the    *)
(* "Transcription started" acknowledgment is sent to the chat, then the     *)
(* delivery task is started: an invocation that starts a task made exactly  *)
(* these three calls in this order, the acknowledgment names the order and  *)
(* goes to the task's chat, and at that moment the task has made no export  *)
(* call and no send, so none can precede the acknowledgment.                *)
Acknowledged(r, task) ==
    /\ r.result = "ok"
    /\ r.events = <<"create_transcription", "send_message", "Thread.start">>
    /\ Len(r.msgs) = 1
    /\ r.msgs[1].text = AckText(task.order_id)
    /\ r.msgs[1].chat_id = task.chat_id
    /\ r.msgs[1].lo = 0 /\ r.msgs[1].hi = TextLen(AckText(task.order_id))

C20_State ==
    /\ handled >= 1 /\ req.started = 1 =>
          /\ TasksOf(handled) # {}
          /\ \A t \in TasksOf(handled) : Acknowledged(req, tasks[t])
    /\ \A k \in DOMAIN req.events :
          req.events[k] = "Thread.start" =>
              \E j \in 1..(k - 1) : req.events[j] = "send_message"

C20_Step ==
    \A t \in DOMAIN tasks' \ DOMAIN tasks :
        /\ Acknowledged(req', tasks'[t])
        /\ tasks'[t].state = "Polling"
        /\ tasks'[t].exports = <<>>
        /\ tasks'[t].sends = 0 /\ tasks'[t].msgs = <<>> /\ tasks'[t].docs = <<>>

C20_AckBeforeTaskStarts == [](C20_State) /\ [][C20_Step]_vars

\* the order of the last command was acknowledged and its task has since
\* polled once and delivered
C20_Witness ==
    /\ handled >= 1 /\ req.started = 1
    /\ \E t \in TasksOf(handled) :
          /\ Acknowledged(req, tasks[t])
          /\ Len(tasks[t].exports) = 1
          /\ tasks[t].state = "Done" /\ tasks[t].sends = 1

====
